---------------------------- MODULE Spec2Model ----------------------------
(***************************************************************************)
(* Flood-depth viewer (React + deck.gl): the App component of src/app.jsx  *)
(* and of src/unnamed/part_000 (the same component plus an address search  *)
(* that moves the camera).                                                 *)
(*                                                                         *)
(* Units.  Numbers the program holds as floats are held here as integers:  *)
(*   opacity, elevationScale : tenths (the sliders step by 0.1; 2 = 0.2)   *)
(*   latitude, longitude     : 1e-5 degrees (3426173 = 34.26173)           *)
(*   zoom                    : tenths (175 = 17.5)                         *)
(*   a color channel         : fifteenths (an interpolated channel is      *)
(*                             a*(1-t) + b*t with t = k/15 for an integer  *)
(*                             depth, so 15 times it is an integer)        *)
(* A JavaScript string is a sequence of one-character strings.  The value  *)
(* undefined of an accessor is the empty sequence, a number n is <<n>>.    *)
(***************************************************************************)
EXTENDS Integers, Sequences, FiniteSets, TLC

VARIABLES
    variant,           \* which file is running: "app" or "part_000"
    depth,             \* App's depth prop
    credits,           \* useState("")
    opacity,           \* useState(0.2)
    extruded,          \* useState(false)
    elevationScale,    \* useState(0.5)
    initialViewState,  \* useState({...}) (part_000); the constant in app.jsx
    data,              \* what the two GeoJSON URLs have delivered so far
    layers,            \* the layer list handed to DeckGL by the last render
    deckViewState,     \* the initialViewState prop handed to DeckGL
    creditsDiv,        \* the text of the credits <div> of the last render
    attribs,           \* per draped layer, per feature: what deck.gl draws
    lastTiles,         \* history: <<tiles>> of the last traversal, or <<>>
    lastFocus,         \* history: <<lat, lng>> of the last goTo, or <<>>
    prevDepth,         \* history: <<depth before the last prop change>>
    traversals,        \* history: traversal callbacks so far (saturating)
    requests           \* history: goTo calls so far (saturating)

vars == <<variant, depth, credits, opacity, extruded, elevationScale,
          initialViewState, data, layers, deckViewState, creditsDiv,
          attribs, lastTiles, lastFocus, prevDepth, traversals, requests>>

(***************************************************************************)
(* Bounds of the model.                                                    *)
(***************************************************************************)
MaxTiles == 2        \* tiles in one traversal result (main specification)
MaxLen == 2          \* characters of a copyright string (SpecCredits)
MaxCredTiles == 2    \* tiles in one traversal result (SpecCredits)
MaxFeatures == 2     \* features of one feature collection (SpecFilter)
MaxCount == 2        \* where the history counters saturate
NegDepths == 3       \* flood depths below 0 tried (SpecColor)
MaxInputDepth == 123 \* largest flood depth tried (SpecColor)

Min(a, b) == IF a < b THEN a ELSE b
Max(a, b) == IF a > b THEN a ELSE b

(***************************************************************************)
(* Module constants of the two files.                                      *)
(***************************************************************************)
TILESET_URL == "https://tile.googleapis.com/v1/3dtiles/root.json"

COLORS ==
    << <<255, 247, 243>>, <<253, 224, 221>>, <<252, 197, 192>>,
       <<250, 159, 181>>, <<247, 104, 161>>, <<221, 52, 151>>,
       <<174, 1, 126>>, <<122, 1, 119>> >>

ScaleDomain == <<0, 15, 30, 45, 60, 75, 90, 105, 120>>

\* app.jsx keeps the view state in a constant; part_000 in a state hook.
INITIAL_VIEW_STATE ==
    [latitude |-> 3426173, longitude |-> -11875033, zoom |-> 150,
     minZoom |-> 0, maxZoom |-> 18, pitch |-> 20]

DefaultViewState ==
    [latitude |-> 3426173, longitude |-> -11875033, zoom |-> 150,
     bearing |-> 0, pitch |-> 0]

FLOOD_ZONE_DATA(v) == IF v = "app" THEN "./data/tuflow_zones.geojson"
                      ELSE "/tuflow_zones.geojson"
PROJECT_BOUNDS(v) == IF v = "app" THEN "./data/tuflow_bounds.geojson"
                     ELSE "/tuflow_bounds.geojson"

Variants == {"app", "part_000"}
DrapedIds == {"project_boundaries", "flood_zones"}

(***************************************************************************)
(* colorScale = scaleLinear().clamp(true).domain([0..120]).range(COLORS)   *)
(* The domain has 9 entries and the range 8: d3 uses the first             *)
(* min(9, 8) = 8 of each, so the scale runs from 0 to 105 and clamps       *)
(* there.  The result is in fifteenths (see Units).                        *)
(***************************************************************************)
ScaleSize == Min(Len(ScaleDomain), Len(COLORS))

\* d3 clamper(domain[0], domain[n - 1])
Clamp(x) == Max(ScaleDomain[1], Min(ScaleDomain[ScaleSize], x))

\* d3 bisectRight(domain, x, 1, n - 1), 0-based lo and hi, on the sorted
\* domain: the first index in lo..hi-1 whose entry exceeds x, else hi.
\* Returned 0-based, as d3 returns it.
BisectRight(x, lo, hi) ==
    LET over == {i \in lo..(hi - 1) : ScaleDomain[i + 1] > x}
    IN  IF over = {} THEN hi
        ELSE CHOOSE i \in over : \A j \in over : i <= j

\* d3 interpolateNumber on each channel: a * (1 - t) + b * t, t = k / w,
\* times w.
InterpolateArray(a, b, k, w) ==
    [c \in 1..3 |-> a[c] * (w - k) + b[c] * k]

\* d3 polymap: i = bisect(domain, x, 1, j) - 1; r[i](d[i](x)), on the
\* clamped input.  colorScale(undefined) is d3's "unknown": undefined.
\* the scale as it would be without .clamp(true)
ColorScaleUnclamped(v) ==
    IF v = <<>> THEN <<>>
    ELSE LET x == v[1]
             i == BisectRight(x, 1, ScaleSize - 1) - 1
             lo == ScaleDomain[i + 1]
             hi == ScaleDomain[i + 2]
         IN  InterpolateArray(COLORS[i + 1], COLORS[i + 2], x - lo, hi - lo)
\* the scale as the two files build it
colorScale(v) ==
    IF v = <<>> THEN <<>>
    ELSE LET x == Clamp(v[1])
             i == BisectRight(x, 1, ScaleSize - 1) - 1
             lo == ScaleDomain[i + 1]
             hi == ScaleDomain[i + 2]
         IN  InterpolateArray(COLORS[i + 1], COLORS[i + 2], x - lo, hi - lo)

(***************************************************************************)
(* The credit aggregation of onTraversalComplete.                          *)
(***************************************************************************)
RECURSIVE SplitRec(_, _, _)
SplitRec(s, cur, acc) ==
    IF s = <<>> THEN Append(acc, cur)
    ELSE IF Head(s) = ";" THEN SplitRec(Tail(s), <<>>, Append(acc, cur))
    ELSE SplitRec(Tail(s), Append(cur, Head(s)), acc)

\* copyright.split(";")
Split(s) == SplitRec(s, <<>>, <<>>)

\* Set.prototype.add on an insertion-ordered Set
\* (SetAddNoDedup: an array push in place of the Set)
SetAddNoDedup(set, v) == Append(set, v)
SetAdd(set, v) ==
    IF \E i \in 1..Len(set) : set[i] = v THEN set ELSE Append(set, v)

RECURSIVE AddAll(_, _)
AddAll(set, tokens) ==
    IF tokens = <<>> THEN set
    ELSE AddAll(SetAdd(set, Head(tokens)), Tail(tokens))

\* selectedTiles.forEach(tile => copyright.split(";").forEach(add))
RECURSIVE CollectCredits(_, _)
CollectCredits(set, tiles) ==
    IF tiles = <<>> THEN set
    ELSE CollectCredits(
             AddAll(set, Split(Head(tiles).content.gltf.asset.copyright)),
             Tail(tiles))

\* [...set].join("; ")
RECURSIVE Join(_)
Join(seq) ==
    IF seq = <<>> THEN <<>>
    ELSE IF Len(seq) = 1 THEN seq[1]
    ELSE seq[1] \o <<";", " ">> \o Join(Tail(seq))

Tile(copyright) ==
    [content |-> [gltf |-> [asset |-> [copyright |-> copyright]]]]

(***************************************************************************)
(* The layer list of one render: const layers = [...].                     *)
(* The three accessors are the same closures in both draped layers; they   *)
(* are the operators getFillColor, getFilterValue and getElevation below.  *)
(***************************************************************************)
Tile3DLayer ==
    [id |-> "google-3d-tiles", data |-> TILESET_URL,
     loadOptions |-> [fetch |-> [headers |-> {"X-GOOG-API-KEY"}]],
     operation |-> "terrain+draw"]

Extensions == <<"DataFilterExtension(filterSize: 1)", "TerrainExtension">>

\* BoundsLayerWideRange: the boundary layer with the flood-zone layer's
\* upper bound, as a copy of that block would have it.
BoundsLayerWideRange(v, d, o, e, s) ==
    [id |-> "project_boundaries", data |-> PROJECT_BOUNDS(v),
     extensions |-> Extensions, stroked |-> FALSE, filled |-> TRUE,
     extruded |-> e, opacity |-> o, filterRange |-> <<d, 120>>,
     elevationScale |-> s]
BoundsLayer(v, d, o, e, s) ==
    [id |-> "project_boundaries", data |-> PROJECT_BOUNDS(v),
     extensions |-> Extensions, stroked |-> FALSE, filled |-> TRUE,
     extruded |-> e, opacity |-> o, filterRange |-> <<d, 20>>,
     elevationScale |-> s]

\* ZonesLayerStaleOpacity: the flood-zone layer with the initial opacity
\* written in; ZonesLayerFixedRange: with the default depth written in.
ZonesLayerStaleOpacity(v, d, o, e, s) ==
    [id |-> "flood_zones", data |-> FLOOD_ZONE_DATA(v),
     extensions |-> Extensions, stroked |-> FALSE, filled |-> TRUE,
     extruded |-> e, opacity |-> 2, filterRange |-> <<d, 120>>,
     elevationScale |-> s]
ZonesLayerFixedRange(v, d, o, e, s) ==
    [id |-> "flood_zones", data |-> FLOOD_ZONE_DATA(v),
     extensions |-> Extensions, stroked |-> FALSE, filled |-> TRUE,
     extruded |-> e, opacity |-> o, filterRange |-> <<0, 120>>,
     elevationScale |-> s]
ZonesLayer(v, d, o, e, s) ==
    [id |-> "flood_zones", data |-> FLOOD_ZONE_DATA(v),
     extensions |-> Extensions, stroked |-> FALSE, filled |-> TRUE,
     extruded |-> e, opacity |-> o, filterRange |-> <<d, 120>>,
     elevationScale |-> s]

\* ComposeLayersDrapedFirst: the list with the terrain layer last.
ComposeLayersDrapedFirst(v, d, o, e, s) ==
    <<BoundsLayer(v, d, o, e, s), ZonesLayer(v, d, o, e, s), Tile3DLayer>>
ComposeLayers(v, d, o, e, s) ==
    <<Tile3DLayer, BoundsLayer(v, d, o, e, s), ZonesLayer(v, d, o, e, s)>>

\* A feature is [properties |-> r], r a record that has a flood_depth
\* field or lacks it.  properties.flood_depth of a record without the
\* field is undefined.
FloodDepth(f) ==
    IF "flood_depth" \in DOMAIN f.properties
    THEN <<f.properties.flood_depth>> ELSE <<>>

getFillColor(f) == colorScale(FloodDepth(f))
getFilterValue(f) == FloodDepth(f)
getElevation(f) == FloodDepth(f)

(***************************************************************************)
(* What deck.gl does with a draped layer and its features (the library is  *)
(* not part of the repository; this is its behaviour for the props the     *)
(* two files pass).  An accessor's result is packed into a vertex          *)
(* attribute: a finite number as it is, undefined as the attribute's       *)
(* default, 0.  DataFilterExtension draws an object when                   *)
(* filterRange[0] <= value <= filterRange[1] and discards it otherwise.    *)
(***************************************************************************)
NormalizeValue(v) == IF v = <<>> THEN 0 ELSE v[1]

InFilterRange(x, range) == range[1] <= x /\ x <= range[2]

LayerAttributes(layer, features) ==
    [i \in 1..Len(features) |->
        [getFillColor |-> getFillColor(features[i]),
         getFilterValue |-> getFilterValue(features[i]),
         getElevation |-> getElevation(features[i]),
         filterValue |-> NormalizeValue(getFilterValue(features[i])),
         visible |-> InFilterRange(
                         NormalizeValue(getFilterValue(features[i])),
                         layer.filterRange)]]

\* data[id] is <<>> until the URL has delivered, then <<features>>.
Features(dat, id) == IF dat[id] = <<>> THEN <<>> ELSE dat[id][1]

LayerById(ls, id) == CHOOSE l \in {ls[i] : i \in 1..Len(ls)} : l.id = id

DrawLayers(ls, dat) ==
    [id \in DrapedIds |-> LayerAttributes(LayerById(ls, id), Features(dat, id))]

(***************************************************************************)
(* One render of App: the JSX handed to DeckGL and the credits <div>.      *)
(* app.jsx passes the constant INITIAL_VIEW_STATE, part_000 the hook.      *)
(***************************************************************************)
ViewProp(v, ivs) == IF v = "app" THEN INITIAL_VIEW_STATE ELSE ivs

Render ==
    /\ layers' = ComposeLayers(variant', depth', opacity', extruded',
                               elevationScale')
    /\ deckViewState' = ViewProp(variant', initialViewState')
    /\ creditsDiv' = credits'
    /\ attribs' = DrawLayers(layers', data')

(***************************************************************************)
(* Inputs.                                                                 *)
(***************************************************************************)
SliderSteps == 10    \* <input type="range" min="0" max="1" step="0.1">
DefaultOpacity == 2
DefaultElevationScale == 5
DefaultDepth == 0
FocusZoom == 175
TransitionDuration == 1000

SliderInputs == {0, 7}
DepthInputs == {DefaultDepth, 50}
FilterDepths == {DefaultDepth, 10, 50}

Str3(a, b, c) == <<a, b, c>>
Copyrights == {Str3("A", ";", "B"), Str3("B", ";", "C")}

\* the sequences over S of length at most n
SeqsUpTo(S, n) == UNION {[1..k -> S] : k \in 0..n}

TileLists == SeqsUpTo({Tile(c) : c \in Copyrights}, MaxTiles)

Location(lat, lng) == [lat |-> lat, lng |-> lng]
Places ==
    { [name |-> "no geometry"],
      [name |-> "no location", geometry |-> [viewport |-> "v"]],
      [name |-> "LA", geometry |-> [location |-> Location(3400000, -11800000)]],
      [name |-> "NY", geometry |-> [location |-> Location(4071280, -7400600)]] }

Feature(d) == [properties |-> [flood_depth |-> d]]
NoDepthFeature == [properties |-> [name |-> "no depth"]]

SampleZones == <<Feature(5), Feature(49), Feature(50), NoDepthFeature>>

(***************************************************************************)
(* The state after renderToDOM / mounting App with a depth prop: the       *)
(* hooks at their defaults, nothing loaded, the first render done.         *)
(***************************************************************************)
InitApp(variants, depths) ==
    /\ variant \in variants
    /\ depth \in depths
    /\ credits = <<>>
    /\ opacity = DefaultOpacity
    /\ extruded = FALSE
    /\ elevationScale = DefaultElevationScale
    /\ initialViewState =
           IF variant = "app" THEN INITIAL_VIEW_STATE ELSE DefaultViewState
    /\ data = [id \in DrapedIds |-> <<>>]
    /\ layers = ComposeLayers(variant, depth, opacity, extruded, elevationScale)
    /\ deckViewState = ViewProp(variant, initialViewState)
    /\ creditsDiv = credits
    /\ attribs = DrawLayers(layers, data)
    /\ lastTiles = <<>>
    /\ lastFocus = <<>>
    /\ prevDepth = <<>>
    /\ traversals = 0
    /\ requests = 0

Init == InitApp(Variants, DepthInputs)

(***************************************************************************)
(* Event handlers.  Each sets its hook and React renders App again.        *)
(***************************************************************************)
\* OpacityControl: onChange(parseFloat(e.target.value)) -> setOpacity
SetOpacity(k) ==
    /\ opacity' = k
    /\ UNCHANGED <<variant, depth, credits, extruded, elevationScale,
                   initialViewState, data, lastTiles, lastFocus, prevDepth,
                   traversals, requests>>
    /\ Render

\* ExtrusionControl: onChange(e.target.checked) -> setExtruded
SetExtruded(b) ==
    /\ extruded' = b
    /\ UNCHANGED <<variant, depth, credits, opacity, elevationScale,
                   initialViewState, data, lastTiles, lastFocus, prevDepth,
                   traversals, requests>>
    /\ Render

\* ElevationMultiplierControl: onChange(parseFloat(...)) -> setElevationScale
SetElevationScale(k) ==
    /\ elevationScale' = k
    /\ UNCHANGED <<variant, depth, credits, opacity, extruded,
                   initialViewState, data, lastTiles, lastFocus, prevDepth,
                   traversals, requests>>
    /\ Render

\* new Set() of one callback (NewSetKept: a Set that outlives the callback
\* and still holds what the displayed string was built from)
NewSetKept == IF credits = <<>> THEN <<>> ELSE Split(credits)
NewSet == <<>>

\* tileset3d.options.onTraversalComplete = (selectedTiles) => {...}
onTraversalComplete(selectedTiles) ==
    /\ credits' = Join(CollectCredits(NewSet, selectedTiles))
    /\ lastTiles' = <<selectedTiles>>
    /\ traversals' = Min(traversals + 1, MaxCount)
    /\ UNCHANGED <<variant, depth, opacity, extruded, elevationScale,
                   initialViewState, data, lastFocus, prevDepth, requests>>
    /\ Render

\* goTo = useCallback((lat, lng) => setInitialViewState({...}))
\* (GoToRecordMerged: the new fields spread over the previous view state)
GoToRecordMerged(lat, lng) ==
    [f \in DOMAIN initialViewState \cup {"transitionDuration"} |->
        IF f = "latitude" THEN lat
        ELSE IF f = "longitude" THEN lng
        ELSE IF f = "transitionDuration" THEN TransitionDuration
        ELSE initialViewState[f]]
GoToRecord(lat, lng) ==
    [longitude |-> lng, latitude |-> lat, zoom |-> FocusZoom, pitch |-> 0,
     bearing |-> 0, transitionDuration |-> TransitionDuration]

goTo(lat, lng) ==
    /\ initialViewState' = GoToRecord(lat, lng)
    /\ lastFocus' = <<lat, lng>>
    /\ requests' = Min(requests + 1, MaxCount)
    /\ UNCHANGED <<variant, depth, credits, opacity, extruded,
                   elevationScale, data, lastTiles, prevDepth, traversals>>
    /\ Render

\* Autocomplete onPlaceSelected (part_000 only)
onPlaceSelected(place) ==
    /\ variant = "part_000"
    /\ IF /\ "geometry" \in DOMAIN place
          /\ "location" \in DOMAIN place.geometry
       THEN goTo(place.geometry.location.lat, place.geometry.location.lng)
       ELSE UNCHANGED vars

\* The parent renders App again with another depth prop.
SetDepthProp(d) ==
    /\ d # depth
    /\ depth' = d
    /\ prevDepth' = <<depth>>
    /\ UNCHANGED <<variant, credits, opacity, extruded, elevationScale,
                   initialViewState, data, lastTiles, lastFocus,
                   traversals, requests>>
    /\ Render

\* A GeoJsonLayer's data URL delivers its feature collection (once).
onDataLoad(id, features) ==
    /\ data[id] = <<>>
    /\ data' = [data EXCEPT ![id] = <<features>>]
    /\ UNCHANGED <<variant, depth, credits, opacity, extruded,
                   elevationScale, initialViewState, lastTiles, lastFocus,
                   prevDepth, traversals, requests>>
    /\ Render

(***************************************************************************)
(* The application: every event, in any order.                             *)
(***************************************************************************)
Next ==
    \/ \E k \in SliderInputs : SetOpacity(k)
    \/ \E b \in BOOLEAN : SetExtruded(b)
    \/ \E k \in SliderInputs : SetElevationScale(k)
    \/ \E tiles \in TileLists : onTraversalComplete(tiles)
    \/ \E place \in Places : onPlaceSelected(place)
    \/ \E d \in DepthInputs : SetDepthProp(d)
    \/ onDataLoad("flood_zones", SampleZones)

Spec == Init /\ [][Next]_vars

(***************************************************************************)
(* The credit aggregation alone, over every short copyright string.  The   *)
(* first traversal takes any tile list; the second repeats it or takes a   *)
(* list of the application's sample tiles.                                 *)
(***************************************************************************)
CredAlphabet == {"A", " ", ";"}
CredStrings == SeqsUpTo(CredAlphabet, MaxLen)
ExampleTiles == <<Tile(Str3("A", ";", "B")), Tile(Str3("B", ";", "C"))>>
CaseTiles == <<Tile(Str3("a", ";", "A")), Tile(<<"A">>), Tile(<<"a">>)>>
CredTileLists ==
    SeqsUpTo({Tile(c) : c \in CredStrings}, MaxCredTiles)
        \cup {ExampleTiles, CaseTiles}

InitCredits == InitApp({"part_000"}, {DefaultDepth})

FirstTraversal ==
    /\ traversals = 0
    /\ \E tiles \in CredTileLists : onTraversalComplete(tiles)

SameTraversalAgain ==
    /\ traversals = 1
    /\ onTraversalComplete(lastTiles[1])

OtherTraversal ==
    /\ traversals = 1
    /\ \E tiles \in TileLists : onTraversalComplete(tiles)

NextCredits == FirstTraversal \/ SameTraversalAgain \/ OtherTraversal

SpecCredits == InitCredits /\ [][NextCredits]_vars

(***************************************************************************)
(* The data filter alone: the two feature collections arrive, in either    *)
(* order, with any short list of sample features, under each depth prop.   *)
(***************************************************************************)
BoundsSamples == {Feature(d) : d \in {5, 10, 20, 21}} \cup {NoDepthFeature}
ZonesSamples == {Feature(d) : d \in {5, 120, 121}} \cup {NoDepthFeature}

InitFilter == InitApp(Variants, FilterDepths)

BoundsLoad ==
    \E fs \in SeqsUpTo(BoundsSamples, MaxFeatures) :
        onDataLoad("project_boundaries", fs)
ZonesLoad ==
    \E fs \in SeqsUpTo(ZonesSamples, MaxFeatures) :
        onDataLoad("flood_zones", fs)

NextFilter == BoundsLoad \/ ZonesLoad

SpecFilter == InitFilter /\ [][NextFilter]_vars

(***************************************************************************)
(* The color scale alone: each collection arrives with one feature of any  *)
(* depth from below the domain to above it.                                *)
(***************************************************************************)
ColorDepths == (0 - NegDepths)..MaxInputDepth

InitColor == InitApp(Variants, {DefaultDepth})

BoundsColorLoad ==
    \E d \in ColorDepths : onDataLoad("project_boundaries", <<Feature(d)>>)
ZonesColorLoad ==
    \E d \in ColorDepths : onDataLoad("flood_zones", <<Feature(d)>>)

NextColor == BoundsColorLoad \/ ZonesColorLoad

SpecColor == InitColor /\ [][NextColor]_vars

(***************************************************************************)
(* Reading a credit string back, and the tokens of a tile list, written    *)
(* independently of the aggregation above.                                 *)
(***************************************************************************)
Range(seq) == {seq[i] : i \in 1..Len(seq)}

\* the k-th smallest element of a finite set of integers
Kth(P, k) == CHOOSE p \in P : Cardinality({q \in P : q < p}) = k - 1

\* the pieces of s between the separator positions P, each sepLen long
Pieces(s, P, sepLen) ==
    LET n == Cardinality(P) + 1
    IN  [k \in 1..n |->
            SubSeq(s,
                   IF k = 1 THEN 1 ELSE Kth(P, k - 1) + sepLen,
                   IF k = n THEN Len(s) ELSE Kth(P, k) - 1)]

\* the tokens of one copyright string: its pieces between the ";"
TokensOf(s) == Pieces(s, {i \in 1..Len(s) : s[i] = ";"}, 1)

\* the fields of a displayed credit string: its pieces between the "; "
FieldsOf(s) ==
    Pieces(s, {i \in 1..(Len(s) - 1) : s[i] = ";" /\ s[i + 1] = " "}, 2)

RECURSIVE AllTokens(_)
AllTokens(tiles) ==
    IF tiles = <<>> THEN <<>>
    ELSE TokensOf(tiles[1].content.gltf.asset.copyright)
             \o AllTokens(Tail(tiles))

RECURSIVE FirstOccurrences(_)
FirstOccurrences(seq) ==
    IF seq = <<>> THEN <<>>
    ELSE LET front == FirstOccurrences(SubSeq(seq, 1, Len(seq) - 1))
             last == seq[Len(seq)]
         IN  IF last \in Range(front) THEN front ELSE Append(front, last)

FirstIndex(seq, x) == CHOOSE i \in 1..Len(seq) :
    seq[i] = x /\ \A j \in 1..(i - 1) : seq[j] # x

Count(seq, x) == Cardinality({i \in 1..Len(seq) : seq[i] = x})

RECURSIVE SumLen(_)
SumLen(seq) == IF seq = <<>> THEN 0 ELSE Len(seq[1]) + SumLen(Tail(seq))

Draped(ls) == {ls[i] : i \in {i \in 1..Len(ls) : ls[i].id \in DrapedIds}}

(***************************************************************************)
(* C1.  Whatever events came before and in whatever order, the displayed   *)
(* credit string is decided by the tile list of the most recent traversal  *)
(* alone: before any traversal it is the empty string; afterwards its      *)
(* fields are exactly the distinct tokens of that list, so nothing of an   *)
(* earlier traversal survives and the same list always gives the same      *)
(* string.  The credits <div> shows that string.                           *)
(***************************************************************************)
CreditsOfLastTraversal ==
    /\ creditsDiv = credits
    /\ lastTiles = <<>> => credits = <<>>
    /\ lastTiles # <<>> =>
          LET toks == FirstOccurrences(AllTokens(lastTiles[1]))
          IN  /\ toks = <<>> => credits = <<>>
              /\ toks # <<>> => FieldsOf(credits) = toks
              /\ credits # <<>> =>
                    \A f \in Range(FieldsOf(credits)) :
                        f \in Range(AllTokens(lastTiles[1]))

\* a second traversal (B;C alone) has replaced the credits of the first
CreditsReplacedWitness ==
    /\ traversals >= 2
    /\ requests >= 1
    /\ opacity # DefaultOpacity
    /\ lastTiles = << <<Tile(Str3("B", ";", "C"))>> >>
    /\ creditsDiv = <<"B", ";", " ", "C">>

(***************************************************************************)
(* C2.  For every tile list the credit string holds each distinct token    *)
(* of the tiles' copyright strings (split on ";", compared character by    *)
(* character) exactly once, in the order of first occurrence, with "; "    *)
(* between consecutive tokens and nothing else; tiles "A;B" and "B;C"      *)
(* give "A; B; C".                                                         *)
(***************************************************************************)
EachTokenOnce ==
    lastTiles # <<>> =>
        LET toks == AllTokens(lastTiles[1])
            fields == FieldsOf(credits)
        IN  /\ \A t \in Range(toks) : Count(fields, t) = 1
            /\ \A t, u \in Range(toks) :
                   FirstIndex(toks, t) < FirstIndex(toks, u)
                       => FirstIndex(fields, t) < FirstIndex(fields, u)
            /\ toks # <<>> =>
                   /\ Range(fields) = Range(toks)
                   /\ Len(credits) = SumLen(fields) + 2 * (Len(fields) - 1)
            /\ toks = <<>> => credits = <<>>
            /\ lastTiles[1] = ExampleTiles =>
                   credits = <<"A", ";", " ", "B", ";", " ", "C">>
            /\ lastTiles[1] = CaseTiles => credits = <<"a", ";", " ", "A">>

EachTokenOnceWitness ==
    /\ lastTiles = <<ExampleTiles>>
    /\ credits = <<"A", ";", " ", "B", ";", " ", "C">>

(***************************************************************************)
(* C3.  Every layer list handed to the renderer has both draped layers     *)
(* carrying the opacity, extruded flag, elevationScale and filter lower    *)
(* bound of the current state: neither has a value of an earlier state or  *)
(* a value that differs from the other's.                                  *)
(***************************************************************************)
DrapedLayersCurrent ==
    /\ {l.id : l \in Draped(layers)} = DrapedIds
    /\ \A l \in Draped(layers) :
          /\ l.opacity = opacity
          /\ l.extruded = extruded
          /\ l.elevationScale = elevationScale
          /\ l.filterRange[1] = depth
    /\ \A l, m \in Draped(layers) :
          /\ l.opacity = m.opacity
          /\ l.extruded = m.extruded
          /\ l.elevationScale = m.elevationScale
          /\ l.filterRange[1] = m.filterRange[1]

\* every setter has fired, between a traversal and a focus request
DrapedLayersWitness ==
    /\ opacity = 7
    /\ extruded
    /\ elevationScale = 0
    /\ depth = 50 /\ prevDepth = <<0>>
    /\ traversals >= 1 /\ requests >= 1
    /\ \A l \in Draped(layers) : l.opacity = 7 /\ l.extruded

(***************************************************************************)
(* C4.  In every state the layer list is the 3D tiles layer, then the      *)
(* boundary layer, then the flood-zone layer: three layers, in that order, *)
(* whatever events have happened.                                          *)
(***************************************************************************)
LayerOrder ==
    /\ Len(layers) = 3
    /\ layers[1].id = "google-3d-tiles"
    /\ layers[1].operation = "terrain+draw"
    /\ layers[2].id = "project_boundaries"
    /\ layers[3].id = "flood_zones"

LayerOrderWitness ==
    /\ traversals >= 1 /\ requests >= 1
    /\ opacity # DefaultOpacity /\ extruded
    /\ prevDepth # <<>>
    /\ data["flood_zones"] # <<>>
    /\ <<layers[1].id, layers[2].id, layers[3].id>> =
           <<"google-3d-tiles", "project_boundaries", "flood_zones">>

(***************************************************************************)
(* C5.  A feature with a numeric flood_depth is drawn by a draped layer    *)
(* exactly when depth <= flood_depth <= maxDepth, both ends included,      *)
(* maxDepth being 20 for the boundary layer and 120 for the flood-zone     *)
(* layer; with the range (10, 20), depth 5 is left out, 10 and 20 are      *)
(* drawn and 21 is left out.                                               *)
(***************************************************************************)
MaxDepthOf(id) == IF id = "project_boundaries" THEN 20 ELSE 120

FilterInclusive ==
    \A id \in DrapedIds :
        LET fs == Features(data, id)
        IN  /\ Len(attribs[id]) = Len(fs)
            /\ \A i \in 1..Len(fs) :
                  "flood_depth" \in DOMAIN fs[i].properties =>
                      LET x == fs[i].properties.flood_depth
                      IN  /\ attribs[id][i].visible
                              <=> (depth <= x /\ x <= MaxDepthOf(id))
                          /\ (depth = 10 /\ id = "project_boundaries") =>
                                /\ x = 5 => ~attribs[id][i].visible
                                /\ x = 10 => attribs[id][i].visible
                                /\ x = 20 => attribs[id][i].visible
                                /\ x = 21 => ~attribs[id][i].visible

\* range (10, 20): 20 is drawn and 21 is not; (10, 120): 5 is not, 120 is
FilterInclusiveWitness ==
    /\ depth = 10
    /\ data["project_boundaries"] = << <<Feature(20), Feature(21)>> >>
    /\ attribs["project_boundaries"][1].visible
    /\ ~attribs["project_boundaries"][2].visible
    /\ data["flood_zones"] = << <<Feature(5), Feature(120)>> >>
    /\ ~attribs["flood_zones"][1].visible
    /\ attribs["flood_zones"][2].visible

(***************************************************************************)
(* C6.  In every state, for every depth prop App is given, each draped     *)
(* layer's filterRange has low <= high.                                    *)
(***************************************************************************)
FilterRangeOrdered ==
    \A l \in Draped(layers) : l.filterRange[1] <= l.filterRange[2]

(***************************************************************************)
(* C7.  The view state handed to the renderer is the fixed default until   *)
(* the first focus request, and from then on exactly the record goTo       *)
(* builds from the most recent request's arguments: those six fields and   *)
(* no other, nothing kept of the previous view state.  Setters,            *)
(* traversals, data and prop changes leave it alone.                       *)
(***************************************************************************)
ViewOfLastFocus ==
    /\ lastFocus = <<>> =>
          deckViewState =
              IF variant = "app" THEN INITIAL_VIEW_STATE ELSE DefaultViewState
    /\ lastFocus # <<>> =>
          /\ DOMAIN deckViewState = {"latitude", "longitude", "zoom", "pitch",
                                     "bearing", "transitionDuration"}
          /\ deckViewState.latitude = lastFocus[1]
          /\ deckViewState.longitude = lastFocus[2]
          /\ deckViewState.zoom = 175
          /\ deckViewState.pitch = 0
          /\ deckViewState.bearing = 0
          /\ deckViewState.transitionDuration = 1000

\* a second request (New York) has replaced an earlier one
ViewOfLastFocusWitness ==
    /\ requests >= 2
    /\ traversals >= 1
    /\ opacity # DefaultOpacity
    /\ lastFocus = <<4071280, -7400600>>
    /\ deckViewState.latitude = 4071280
    /\ deckViewState.longitude = -7400600

(***************************************************************************)
(* C8 as stated.  When the depth prop goes from 0 to 50, the next          *)
(* composition leaves out every flood-zone feature with flood_depth < 50   *)
(* and changes nothing else: layer order, data sources, opacity, extruded, *)
(* elevationScale and every parameter of the other layers stay as they     *)
(* were.                                                                   *)
(***************************************************************************)
ZonesBelowExcluded(a, dat) ==
    LET fs == Features(dat, "flood_zones")
    IN  \A i \in 1..Len(fs) :
            ("flood_depth" \in DOMAIN fs[i].properties
                 /\ fs[i].properties.flood_depth < 50)
                => ~a["flood_zones"][i].visible

DepthChangeTouchesOnlyZones ==
    [][(depth = 0 /\ depth' = 50) =>
          /\ ZonesBelowExcluded(attribs', data')
          /\ Len(layers') = Len(layers)
          /\ layers'[1] = layers[1]
          /\ layers'[2] = layers[2]
          /\ layers'[3] = [layers[3] EXCEPT !.filterRange = <<50, 120>>]
      ]_vars

(***************************************************************************)
(* C8 amended.  When the depth prop goes from 0 to 50, the next            *)
(* composition leaves out every flood-zone feature with flood_depth < 50;  *)
(* the boundary layer's filterRange lower bound becomes 50 as well (its    *)
(* range is then [50, 20]); nothing else changes: layer order, data        *)
(* sources, opacity, extruded, elevationScale and every other parameter    *)
(* of every layer stay as they were.                                       *)
(***************************************************************************)
DepthChangeTouchesBothRanges ==
    [][(depth = 0 /\ depth' = 50) =>
          /\ ZonesBelowExcluded(attribs', data')
          /\ Len(layers') = Len(layers)
          /\ layers'[1] = layers[1]
          /\ layers'[2] = [layers[2] EXCEPT !.filterRange = <<50, 20>>]
          /\ layers'[3] = [layers[3] EXCEPT !.filterRange = <<50, 120>>]
          /\ layers[2].filterRange = <<0, 20>>
          /\ layers[3].filterRange = <<0, 120>>
      ]_vars

\* the prop has gone from 0 to 50 with the flood zones loaded: 49 is out
DepthChangeWitness ==
    /\ depth = 50 /\ prevDepth = <<0>>
    /\ data["flood_zones"] = <<SampleZones>>
    /\ ~attribs["flood_zones"][1].visible
    /\ ~attribs["flood_zones"][2].visible
    /\ attribs["flood_zones"][3].visible
    /\ layers[2].filterRange = <<50, 20>>

(***************************************************************************)
(* C9.  colorScale gives a color for every depth, below the domain,        *)
(* inside it and above 120: depth 0 gives the first color of the table     *)
(* exactly, 15 the second, 120 the last; every depth below 0 gives the     *)
(* color of 0 and every depth above 120 the color of 120.                  *)
(***************************************************************************)
Exact(rgb) == [c \in 1..3 |-> rgb[c] * 15]

ColorClamped ==
    \A id \in DrapedIds :
        LET fs == Features(data, id)
        IN  \A i \in 1..Len(fs) :
                "flood_depth" \in DOMAIN fs[i].properties =>
                    LET x == fs[i].properties.flood_depth
                        c == attribs[id][i].getFillColor
                    IN  /\ c # <<>>
                        /\ Len(c) = 3
                        /\ x = 0 => c = Exact(COLORS[1])
                        /\ x = 15 => c = Exact(COLORS[2])
                        /\ x = 120 => c = Exact(COLORS[Len(COLORS)])
                        /\ x < 0 => c = Exact(COLORS[1])
                        /\ x > 120 => c = Exact(COLORS[Len(COLORS)])
                        /\ \A id2 \in DrapedIds :
                             LET gs == Features(data, id2)
                             IN  \A j \in 1..Len(gs) :
                                   "flood_depth" \in DOMAIN gs[j].properties =>
                                     LET y == gs[j].properties.flood_depth
                                         cy == attribs[id2][j].getFillColor
                                     IN  /\ (x < 0 /\ y = 0) => c = cy
                                         /\ (x > 120 /\ y = 120) => c = cy

\* one layer holds a depth below the domain, the other the depth 0
ColorClampedWitness ==
    /\ data["flood_zones"] = << <<Feature(-3)>> >>
    /\ data["project_boundaries"] = << <<Feature(0)>> >>
    /\ attribs["flood_zones"][1].getFillColor = Exact(COLORS[1])
    /\ attribs["project_boundaries"][1].getFillColor = Exact(COLORS[1])

(***************************************************************************)
(* C10.  A feature without the flood_depth property is left out of the     *)
(* output of both draped layers, its accessors give a value rather than    *)
(* an error, and the other features of its collection are drawn as the     *)
(* filter says.                                                            *)
(***************************************************************************)
MissingDepthExcluded ==
    \A id \in DrapedIds :
        LET fs == Features(data, id)
        IN  /\ Len(attribs[id]) = Len(fs)
            /\ \A i \in 1..Len(fs) :
                  "flood_depth" \notin DOMAIN fs[i].properties =>
                      ~attribs[id][i].visible

=============================================================================
